---- MODULE Spec2Model ----
(***************************************************************************)
(* Model of mapping/mapping_utils.py (Tangram): pp_adatas, the gene        *)
(* alignment preprocessor, and map_cells_to_space, the mapping             *)
(* orchestrator.  The Mapper class (mapping_optimizer) is not part of the  *)
(* available source and is modelled from the specification.                *)
(***************************************************************************)
EXTENDS Integers, Sequences, FiniteSets, TLC

\* ------------------------------------------------------------------ bounds
NGenes == 3        \* gene identifiers 1..NGenes known to pp_adatas inputs
MaxVars == 2       \* longest gene axis of a pp_adatas input dataset
NCells == 1        \* rows of the cell matrix S
NSpots == 2        \* rows of the spatial matrix G
MaxGenesMap == 2   \* most gene columns of S or G in map_cells_to_space
MaxExpr == 1       \* largest expression value
MaxEpochs == 1     \* largest num_epochs

Genes == 1..NGenes

\* ------------------------------------------------------------- variables
VARIABLES
    \* pp_adatas
    pp_pc,          \* position in pp_adatas
    pp_in1,         \* the caller's adata_1 (never modified)
    pp_in2,         \* the caller's adata_2 (never modified)
    pp_genes_arg,   \* the genes argument: [given, list]
    genes,          \* local `genes`
    adata_1,        \* local `adata_1`
    adata_2,        \* local `adata_2`
    pp_err,         \* exception leaving pp_adatas
    \* map_cells_to_space
    pc,             \* position in map_cells_to_space
    adata_cells,    \* argument adata_cells
    adata_space,    \* argument adata_space
    mode,           \* argument mode
    adata_map_arg,  \* argument adata_map: "none", "fits" or "misfit" (shape)
    num_epochs,     \* argument num_epochs
    device,         \* argument device, a device string
    S,              \* local S: [set, m]
    G,              \* local G: [set, m]
    d,              \* local d: [set, v]
    hyperparameters,\* local hyperparameters: [set, lambda_d, ...]
    mapper,         \* the Mapper object: [built, W, epoch]
    mapping_matrix, \* local mapping_matrix: [set, M]
    adata_map,      \* the result container: [built, X, obs, var, scored, uns]
    err,            \* exception leaving map_cells_to_space
    steps,          \* steps of map_cells_to_space performed so far
    returned        \* TRUE once adata_map has been returned to the caller

ppvars == <<pp_pc, pp_in1, pp_in2, pp_genes_arg, genes, adata_1, adata_2, pp_err>>
mapvars == <<pc, adata_cells, adata_space, mode, adata_map_arg, num_epochs, device, S, G, d,
             hyperparameters, mapper, mapping_matrix, adata_map, err, steps, returned>>
vars == <<ppvars, mapvars>>

\* ------------------------------------------------------------ exceptions
NoError == [type |-> "", line |-> 0]
Raise(t, l) == [type |-> t, line |-> l]

\* --------------------------------------------------------------- helpers
Range(s) == {s[i] : i \in DOMAIN s}

RECURSIVE SeqSum(_)
SeqSum(s) == IF s = <<>> THEN 0 ELSE Head(s) + SeqSum(Tail(s))

Reverse(s) == [i \in 1..Len(s) |-> s[Len(s) + 1 - i]]

\* sequences over A of length at most n
SeqsUpTo(A, n) == UNION {[1..k -> A] : k \in 0..n}

\* sequences without repetition (a gene axis names each gene once)
UniqueSeqsUpTo(A, n) ==
    {s \in SeqsUpTo(A, n) : \A i, j \in DOMAIN s : s[i] = s[j] => i = j}

\* -------------------------------------------------- matrix representations
\* A matrix value: kind is "ndarray" (dense, entries in data), "csr" or "csc"
\* (sparse, the non-zero entries <<row, col, value>> in nz) or "list" (a
\* representation that is none of these).
Dense(r, c, rows) == [kind |-> "ndarray", shape |-> <<r, c>>, data |-> rows, nz |-> {}]

Sparse(k, r, c, rows) ==
    [kind |-> k, shape |-> <<r, c>>, data |-> <<>>,
     nz |-> {<<i, j, rows[i][j]>> : i \in 1..r, j \in 1..c} \ {<<i, j, 0>> : i \in 1..r, j \in 1..c}]

ListOfLists(r, c, rows) == [kind |-> "list", shape |-> <<r, c>>, data |-> rows, nz |-> {}]

MkX(k, r, c, rows) ==
    IF k = "ndarray" THEN Dense(r, c, rows)
    ELSE IF k = "list" THEN ListOfLists(r, c, rows)
    ELSE Sparse(k, r, c, rows)

\* scipy's toarray(): the dense array of a sparse matrix
toarray(X) ==
    Dense(X.shape[1], X.shape[2],
          [i \in 1..X.shape[1] |->
             [j \in 1..X.shape[2] |->
                IF \E e \in X.nz : e[1] = i /\ e[2] = j
                THEN (CHOOSE e \in X.nz : e[1] = i /\ e[2] = j)[3]
                ELSE 0]])

isinstance_ndarray(X) == X.kind = "ndarray"
isinstance_sparse(X) == X.kind \in {"csr", "csc"}
has_toarray(X) == X.kind \in {"csr", "csc"}

\* the entries of a matrix, whatever its representation
Entries(X) == IF X.kind \in {"csr", "csc"} THEN toarray(X).data ELSE X.data

\* X[:, idx]: the columns idx[1], idx[2], ... of X, in that order
ColSelect(X, idx) ==
    [kind |-> X.kind,
     shape |-> <<X.shape[1], Len(idx)>>,
     data |-> IF X.kind \in {"csr", "csc"} THEN <<>>
              ELSE [i \in 1..X.shape[1] |-> [k \in 1..Len(idx) |-> X.data[i][idx[k]]]],
     nz |-> {<<p[1][1], p[2], p[1][3]>> :
                p \in {q \in X.nz \X (1..Len(idx)) : idx[q[2]] = q[1][2]}}]

\* ------------------------------------------------------------ AnnData bits
\* An annotated dataset as far as the code reads it: the gene axis var (the
\* var index, one gene identifier per column) and the expression matrix X.
AnnData(v, X) == [var |-> v, X |-> X]

n_vars(a) == Len(a.var)

\* pandas Index.isin(values): one boolean per position
isin(index, values) == [i \in 1..Len(index) |-> index[i] \in Range(values)]

\* positions at which a boolean mask is set, ascending
RECURSIVE MaskPositionsFrom(_, _)
MaskPositionsFrom(mask, i) ==
    IF i > Len(mask) THEN <<>>
    ELSE (IF mask[i] THEN <<i>> ELSE <<>>) \o MaskPositionsFrom(mask, i + 1)

MaskPositions(mask) == MaskPositionsFrom(mask, 1)

\* adata[:, mask]: keep the columns whose mask entry is set, order unchanged
SubsetByMask(a, mask) ==
    LET idx == MaskPositions(mask)
    IN AnnData([k \in 1..Len(idx) |-> a.var[idx[k]]], ColSelect(a.X, idx))

\* position of a gene name in a gene axis
PosOf(v, g) == CHOOSE i \in 1..Len(v) : v[i] = g

\* adata[:, names]: the columns named names[1], names[2], ..., in that order
IndexByNames(a, names) ==
    LET idx == [k \in 1..Len(names) |-> PosOf(a.var, names[k])]
    IN AnnData(names, ColSelect(a.X, idx))

\* ------------------------------------------------------------- pp_adatas
\* variant: the candidate list is not consulted
RefineGenes_ignoreCandidates(v1, v2, g) ==
    LET m1 == isin(v2, v1)
    IN [k \in 1..Len(MaskPositions(m1)) |-> v2[MaskPositions(m1)[k]]]

\* lines 29-39: the marker genes shared by both datasets
RefineGenes(v1, v2, g) ==
    LET g0 == IF ~g.given THEN v1 ELSE g.list
        m1 == isin(v1, g0)
        g1 == [k \in 1..Len(MaskPositions(m1)) |-> v1[MaskPositions(m1)[k]]]
        m2 == isin(v2, g1)
        g2 == [k \in 1..Len(MaskPositions(m2)) |-> v2[MaskPositions(m2)[k]]]
    IN g2

\* Python's ~ on a bool: ~True = -2, ~False = -1
BitNot(b) == IF b THEN -2 ELSE -1

\* truth value of an int in an `if`
Truthy(n) == n # 0

PPRefine ==
    /\ pp_pc = "refine"
    /\ genes' = RefineGenes(adata_1.var, adata_2.var, pp_genes_arg)
    /\ pp_pc' = "subset"
    /\ UNCHANGED <<pp_in1, pp_in2, pp_genes_arg, adata_1, adata_2, pp_err, mapvars>>

\* variant: the dataset is indexed by the list `genes` instead of a mask
SubsetOnGenes_byNameList(a, g) == IndexByNames(a, g)

\* lines 43-44 and 45-46: subset a dataset on the marker genes
SubsetOnGenes(a, g) == SubsetByMask(a, isin(a.var, g))

PPSubset ==
    /\ pp_pc = "subset"
    /\ LET a1 == SubsetOnGenes(adata_1, genes)
           a2 == SubsetOnGenes(adata_2, genes)
       IN /\ adata_1' = a1
          /\ adata_2' = a2
          /\ IF n_vars(a2) = n_vars(a1)
             THEN pp_pc' = "reorder" /\ pp_err' = pp_err
             ELSE pp_pc' = "raised" /\ pp_err' = Raise("AssertionError", 47)
    /\ UNCHANGED <<pp_in1, pp_in2, pp_genes_arg, genes, mapvars>>

\* line 50
ReorderLike(a2, a1) == IndexByNames(a2, a1.var)

PPReorder ==
    /\ pp_pc = "reorder"
    /\ IF Range(adata_1.var) \subseteq Range(adata_2.var)
       THEN LET a2 == ReorderLike(adata_2, adata_1)
            IN /\ adata_2' = a2
               /\ IF a2.var = adata_1.var
                  THEN pp_pc' = "cast1" /\ pp_err' = pp_err
                  ELSE pp_pc' = "raised" /\ pp_err' = Raise("AssertionError", 51)
       ELSE \* a name that adata_2 does not have
            adata_2' = adata_2 /\ pp_pc' = "raised" /\ pp_err' = Raise("KeyError", 50)
    /\ UNCHANGED <<pp_in1, pp_in2, pp_genes_arg, genes, adata_1, mapvars>>

\* lines 55-56, one iteration of the loop: whether the body runs
CastTaken(X) == Truthy(BitNot(isinstance_ndarray(X)))

\* line 56, `adata.X = value` where adata is a view of the caller's dataset
\* (lines 44, 46, 50).  What the dataset holds afterwards depends on the
\* anndata release: the view becomes a dataset of its own holding value, or
\* the entries are written into the caller's matrix (the same entries it
\* already has) and the view keeps its X as it was.
set_X_of_view(a, value) == {[a EXCEPT !.X = value], a}

PPCast1 ==
    /\ pp_pc = "cast1"
    /\ IF CastTaken(adata_1.X)
       THEN IF has_toarray(adata_1.X)
            THEN /\ adata_1' \in set_X_of_view(adata_1, toarray(adata_1.X))
                 /\ pp_pc' = "cast2" /\ pp_err' = pp_err
            ELSE /\ adata_1' = adata_1
                 /\ pp_pc' = "raised" /\ pp_err' = Raise("AttributeError", 56)
       ELSE adata_1' = adata_1 /\ pp_pc' = "cast2" /\ pp_err' = pp_err
    /\ UNCHANGED <<pp_in1, pp_in2, pp_genes_arg, genes, adata_2, mapvars>>

PPCast2 ==
    /\ pp_pc = "cast2"
    /\ IF CastTaken(adata_2.X)
       THEN IF has_toarray(adata_2.X)
            THEN /\ adata_2' \in set_X_of_view(adata_2, toarray(adata_2.X))
                 /\ pp_pc' = "return" /\ pp_err' = pp_err
            ELSE /\ adata_2' = adata_2
                 /\ pp_pc' = "raised" /\ pp_err' = Raise("AttributeError", 56)
       ELSE adata_2' = adata_2 /\ pp_pc' = "return" /\ pp_err' = pp_err
    /\ UNCHANGED <<pp_in1, pp_in2, pp_genes_arg, genes, adata_1, mapvars>>

PPReturn ==
    /\ pp_pc = "return"
    /\ pp_pc' = "returned"
    /\ UNCHANGED <<pp_in1, pp_in2, pp_genes_arg, genes, adata_1, adata_2, pp_err, mapvars>>

\* expression of gene g in the single observation of dataset k
Expr(k, g) == (g + k) % (MaxExpr + 1)

\* the elements of a set of gene identifiers as a list
RECURSIVE SetToList(_)
SetToList(A) ==
    IF A = {} THEN <<>>
    ELSE LET x == CHOOSE y \in A : \A z \in A : y <= z
         IN <<x>> \o SetToList(A \ {x})

PPKinds == {"ndarray", "csr", "csc"}

PPDataset(n, v, k) ==
    AnnData(v, MkX(k, 1, Len(v), <<[j \in 1..Len(v) |-> Expr(n, v[j])]>>))

MapIdle ==
    /\ pc = "idle"
    /\ adata_cells = AnnData(<<>>, Dense(0, 0, <<>>))
    /\ adata_space = AnnData(<<>>, Dense(0, 0, <<>>))
    /\ mode = "simple"
    /\ adata_map_arg = "none"
    /\ num_epochs = 0
    /\ device = "cuda:0"
    /\ S = [set |-> FALSE, m |-> <<>>]
    /\ G = [set |-> FALSE, m |-> <<>>]
    /\ d = [set |-> FALSE, v |-> <<>>]
    /\ hyperparameters = [set |-> FALSE, lambda_d |-> 0, lambda_g1 |-> 0,
                          lambda_g2 |-> 0, lambda_r |-> 0]
    /\ mapper = [built |-> FALSE, W |-> <<>>, epoch |-> 0]
    /\ mapping_matrix = [set |-> FALSE, M |-> <<>>]
    /\ adata_map = [built |-> FALSE, X |-> <<>>, obs |-> <<>>, var |-> <<>>,
                    scored |-> FALSE, uns |-> <<>>]
    /\ err = NoError
    /\ steps = <<>>
    /\ returned = FALSE

InitPP ==
    /\ pp_pc = "refine"
    /\ \E v1, v2 \in UniqueSeqsUpTo(Genes, MaxVars), k1, k2 \in PPKinds :
          /\ pp_in1 = PPDataset(1, v1, k1)
          /\ pp_in2 = PPDataset(2, v2, k2)
    /\ pp_genes_arg \in {[given |-> FALSE, list |-> <<>>]}
                        \cup {[given |-> TRUE, list |-> SetToList(A)] : A \in SUBSET Genes}
    /\ genes = <<>>
    /\ adata_1 = pp_in1
    /\ adata_2 = pp_in2
    /\ pp_err = NoError
    /\ MapIdle

NextPP == PPRefine \/ PPSubset \/ PPReorder \/ PPCast1 \/ PPCast2 \/ PPReturn

SpecPP == InitPP /\ [][NextPP]_vars


\* ------------------------------------------------------ exact arithmetic
\* Rationals <<numerator, denominator>> with a positive denominator stand for
\* the floating-point numbers of the code.
RECURSIVE GCD(_, _)
GCD(a, b) == IF b = 0 THEN a ELSE GCD(b, a % b)

Abs(n) == IF n < 0 THEN -n ELSE n

\* lowest terms
RNorm(n, dn) == LET g == GCD(Abs(n), dn) IN <<n \div g, dn \div g>>

RInt(n) == <<n, 1>>
RAdd(a, b) == RNorm(a[1] * b[2] + b[1] * a[2], a[2] * b[2])
RMul(a, b) == RNorm(a[1] * b[1], a[2] * b[2])
REq(a, b) == a[1] * b[2] = b[1] * a[2]

RECURSIVE RSum(_)
RSum(s) == IF s = <<>> THEN RInt(0) ELSE RAdd(Head(s), RSum(Tail(s)))

Sign(n) == IF n > 0 THEN 1 ELSE IF n < 0 THEN -1 ELSE 0

nrows(m) == Len(m)
ncols(m) == IF Len(m) = 0 THEN 0 ELSE Len(m[1])

\* ------------------------------------------------- map_cells_to_space
\* np.array(..., dtype='float32') of a dense array: the entries, each
\* converted to float32 (exact for the small integers used here)
float32(x) == x

Float32Array(Xd) ==
    [i \in 1..Xd.shape[1] |-> [j \in 1..Xd.shape[2] |-> float32(Xd.data[i][j])]]

\* variant: a representation that is not recognised is read as a dense array
Ingest_acceptAnything(X) ==
    IF isinstance_sparse(X) THEN [ok |-> TRUE, m |-> Float32Array(toarray(X))]
    ELSE [ok |-> TRUE, m |-> Float32Array(X)]

\* lines 72-79 and 81-88: ingestion of one expression matrix
Ingest(X) ==
    IF isinstance_sparse(X) THEN [ok |-> TRUE, m |-> Float32Array(toarray(X))]
    ELSE IF isinstance_ndarray(X) THEN [ok |-> TRUE, m |-> Float32Array(X)]
    ELSE [ok |-> FALSE, m |-> <<>>]

\* variant: the failure is logged and the call carries on
IngestCells_recover ==
    /\ pc = "ingest_cells"
    /\ LET r == Ingest(adata_cells.X)
       IN /\ S' = [set |-> TRUE, m |-> IF r.ok THEN r.m ELSE Float32Array(adata_cells.X)]
          /\ pc' = "ingest_space"
          /\ steps' = Append(steps, "ingest_cells")
          /\ err' = IF r.ok THEN err ELSE Raise("NotImplementedError", 79)
    /\ UNCHANGED <<adata_cells, adata_space, mode, adata_map_arg, num_epochs, G, d,
                   hyperparameters, mapper, mapping_matrix, adata_map, returned, device, ppvars>>

IngestCells ==
    /\ pc = "ingest_cells"
    /\ LET r == Ingest(adata_cells.X)
       IN IF r.ok
          THEN /\ S' = [set |-> TRUE, m |-> r.m]
               /\ pc' = "ingest_space"
               /\ steps' = Append(steps, "ingest_cells")
               /\ err' = err
          ELSE /\ S' = S
               /\ pc' = "raised"
               /\ steps' = steps
               /\ err' = Raise("NotImplementedError", 79)
    /\ UNCHANGED <<adata_cells, adata_space, mode, adata_map_arg, num_epochs, G, d,
                   hyperparameters, mapper, mapping_matrix, adata_map, returned, device, ppvars>>

IngestSpace ==
    /\ pc = "ingest_space"
    /\ LET r == Ingest(adata_space.X)
       IN IF r.ok
          THEN /\ G' = [set |-> TRUE, m |-> r.m]
               /\ pc' = "alloc_d"
               /\ steps' = Append(steps, "ingest_space")
               /\ err' = err
          ELSE /\ G' = G
               /\ pc' = "raised"
               /\ steps' = steps
               /\ err' = Raise("NotImplementedError", 88)
    /\ UNCHANGED <<adata_cells, adata_space, mode, adata_map_arg, num_epochs, S, d,
                   hyperparameters, mapper, mapping_matrix, adata_map, returned, device, ppvars>>

n_obs(a) == a.X.shape[1]

\* device strings a caller may pass: the default, the host, and one that
\* torch.device cannot parse
Devices == {"cuda:0", "cpu", "gpu0"}

\* line 91: torch.device(device) accepts a string naming a device type, with
\* or without an index, and raises RuntimeError for any other string
torch_device_ok(dev) == dev \in {"cuda:0", "cpu"}

\* lines 90-91: the density vector, then the device
AllocDensity ==
    /\ pc = "alloc_d"
    /\ d' = [set |-> TRUE, v |-> [i \in 1..n_obs(adata_space) |-> 0]]
    /\ IF torch_device_ok(device)
       THEN /\ pc' = "resolve_mode"
            /\ steps' = Append(steps, "alloc_d")
            /\ err' = err
       ELSE /\ pc' = "raised"
            /\ steps' = steps
            /\ err' = Raise("RuntimeError", 91)
    /\ UNCHANGED <<adata_cells, adata_space, mode, adata_map_arg, num_epochs, S, G,
                   hyperparameters, mapper, mapping_matrix, adata_map, returned, device, ppvars>>

\* lines 93-101
ResolveMode ==
    /\ pc = "resolve_mode"
    /\ IF mode = "simple"
       THEN /\ hyperparameters' = [set |-> TRUE, lambda_d |-> 0, lambda_g1 |-> 1,
                                   lambda_g2 |-> 0, lambda_r |-> 0]
            /\ pc' = "construct"
            /\ steps' = Append(steps, "resolve_mode")
            /\ err' = err
       ELSE /\ hyperparameters' = hyperparameters
            /\ pc' = "raised"
            /\ steps' = steps
            /\ err' = Raise("NotImplementedError", 101)
    /\ UNCHANGED <<adata_cells, adata_space, mode, adata_map_arg, num_epochs, S, G, d,
                   mapper, mapping_matrix, adata_map, returned, device, ppvars>>

\* --- the Mapper (mapping_optimizer), from its specification
\* un-normalised weights exp(parameter) of one cell: all its weight on the
\* first spot, all on the last spot, or the same weight on every spot
WeightRows(ns) ==
    {[j \in 1..ns |-> IF j = k THEN 1 ELSE 0] : k \in {1, ns}} \cup {[j \in 1..ns |-> 1]}

\* one row of weights per cell
WeightMatrices(nc, ns) == [1..nc -> WeightRows(ns)]

\* construction: the errors of the preconditions on S, G and a mapping to
\* resume from that do not hold; which one is reported when both fail is
\* not fixed
Mapper_init(Sm, Gm, dv, amap) ==
    (IF ncols(Sm) # ncols(Gm) THEN {Raise("DimensionMismatchError", 103)} ELSE {})
    \cup (IF amap = "misfit" THEN {Raise("ShapeMismatchError", 103)} ELSE {})

\* row-wise softmax of the parameter: each weight over the sum of its row
Softmax(W) ==
    [i \in 1..Len(W) |-> [j \in 1..Len(W[i]) |-> <<W[i][j], SeqSum(W[i])>>]]

\* variant: an error of the Mapper's construction is swallowed
ConstructMapper_swallow ==
    /\ pc = "construct"
    /\ \E W \in WeightMatrices(nrows(S.m), nrows(G.m)) :
          mapper' = [built |-> TRUE, W |-> W, epoch |-> 0]
    /\ pc' = "train"
    /\ steps' = Append(steps, "construct")
    /\ UNCHANGED <<adata_cells, adata_space, mode, adata_map_arg, num_epochs, S, G, d,
                   hyperparameters, mapping_matrix, adata_map, err, returned, device, ppvars>>

\* lines 103-106
ConstructMapper ==
    /\ pc = "construct"
    /\ LET failed == Mapper_init(S.m, G.m, d.v, adata_map_arg)
       IN IF failed = {}
          THEN /\ \E W \in WeightMatrices(nrows(S.m), nrows(G.m)) :
                     mapper' = [built |-> TRUE, W |-> W, epoch |-> 0]
               /\ pc' = "train"
               /\ steps' = Append(steps, "construct")
               /\ err' = err
          ELSE /\ mapper' = mapper
               /\ pc' = "raised"
               /\ steps' = steps
               /\ err' \in failed
    /\ UNCHANGED <<adata_cells, adata_space, mode, adata_map_arg, num_epochs, S, G, d,
                   hyperparameters, mapping_matrix, adata_map, returned, device, ppvars>>

\* one epoch of Mapper.train: a gradient step moves the parameter
TrainEpoch ==
    /\ pc = "train"
    /\ mapper.epoch < num_epochs
    /\ \E W \in WeightMatrices(nrows(S.m), nrows(G.m)) :
          mapper' = [mapper EXCEPT !.W = W, !.epoch = @ + 1]
    /\ UNCHANGED <<pc, adata_cells, adata_space, mode, adata_map_arg, num_epochs, S, G, d,
                   hyperparameters, mapping_matrix, adata_map, err, steps, returned, device, ppvars>>

\* lines 110-113: train returns the mapping matrix
TrainReturn ==
    /\ pc = "train"
    /\ mapper.epoch = num_epochs
    /\ mapping_matrix' = [set |-> TRUE, M |-> Softmax(mapper.W)]
    /\ pc' = "package"
    /\ steps' = Append(steps, "train")
    /\ UNCHANGED <<adata_cells, adata_space, mode, adata_map_arg, num_epochs, S, G, d,
                   hyperparameters, mapper, adata_map, err, returned, device, ppvars>>

\* variant: the un-normalised weights are stored
PackagedX_raw(M) == [i \in 1..Len(M) |-> [j \in 1..Len(M[i]) |-> RInt(M[i][j][1])]]

\* lines 116-118: the matrix handed to the result container
PackagedX(M) == M

Package ==
    /\ pc = "package"
    /\ adata_map' = [built |-> TRUE, X |-> PackagedX(mapping_matrix.M),
                     obs |-> [i \in 1..n_obs(adata_cells) |-> i],
                     var |-> [j \in 1..n_obs(adata_space) |-> j],
                     scored |-> FALSE, uns |-> <<>>]
    /\ pc' = "score"
    /\ steps' = Append(steps, "package")
    /\ UNCHANGED <<adata_cells, adata_space, mode, adata_map_arg, num_epochs, S, G, d,
                   hyperparameters, mapper, mapping_matrix, err, returned, device, ppvars>>


\* line 121: adata_map.X.T @ S, one row per spot and one column per gene
G_predicted_of(X, Sm) ==
    [sp \in 1..ncols(X) |->
       [g \in 1..ncols(Sm) |->
          RSum([i \in 1..nrows(X) |-> RMul(X[i][sp], RInt(Sm[i][g]))])]]

\* the rows of m.T: column g of m as a vector
Column(m, g) == [r \in 1..nrows(m) |-> m[r][g]]

\* A score: not-a-number, or the number sgn * sqrt(num / den)
NaN == [nan |-> TRUE, sgn |-> 0, num |-> 0, den |-> 1]

\* lines 124-125: (v1 @ v2) / (norm(v1) * norm(v2)); v1 of integers, v2 of
\* rationals.  A zero norm makes the float division 0 / 0, which is NaN.
CosSim(v1, v2) ==
    LET n == IF Len(v1) < Len(v2) THEN Len(v1) ELSE Len(v2)
        dot == RSum([k \in 1..n |-> RMul(RInt(v1[k]), v2[k])])
        nn1 == RSum([k \in 1..Len(v1) |-> RInt(v1[k] * v1[k])])
        nn2 == RSum([k \in 1..Len(v2) |-> RMul(v2[k], v2[k])])
        nn == RMul(nn1, nn2)
        sq == RMul(RMul(dot, dot), <<nn[2], nn[1]>>)
    IN IF nn[1] = 0 THEN NaN
       ELSE [nan |-> FALSE, sgn |-> Sign(dot[1]), num |-> sq[1], den |-> sq[2]]

\* a < b for two scores that are numbers
ScoreLess(a, b) == a.sgn * a.num * b.den < b.sgn * b.num * a.den

\* lines 122-125: one score per pair of zip(G.T, G_predicted.T)
CosSims(Gm, Gp) ==
    LET n == IF ncols(Gm) < ncols(Gp) THEN ncols(Gm) ELSE ncols(Gp)
    IN [g \in 1..n |-> CosSim(Column(Gm, g), Column(Gp, g))]

\* stable ascending insertion of a row into an ascending sequence of rows
RECURSIVE InsertAsc(_, _)
InsertAsc(sorted, r) ==
    IF sorted = <<>> THEN <<r>>
    ELSE IF ScoreLess(r.score, Head(sorted).score) THEN <<r>> \o sorted
    ELSE <<Head(sorted)>> \o InsertAsc(Tail(sorted), r)

RECURSIVE SortAsc(_)
SortAsc(rows) ==
    IF rows = <<>> THEN <<>>
    ELSE InsertAsc(SortAsc(SubSeq(rows, 1, Len(rows) - 1)), rows[Len(rows)])

IsNaNRow(r) == r.score.nan
IsNumRow(r) == ~r.score.nan

\* variant: ascending order (the default of sort_values)
sort_values_asc(rows) ==
    SortAsc(SelectSeq(rows, IsNumRow)) \o SelectSeq(rows, IsNaNRow)

\* line 128: sort_values(by='score', ascending=False): the rows whose score
\* is a number in descending order, then the rows whose score is NaN
sort_values_desc(rows) ==
    Reverse(SortAsc(Reverse(SelectSeq(rows, IsNumRow)))) \o SelectSeq(rows, IsNaNRow)

\* lines 126-127: the table of scores indexed by the training genes
DataFrame(cos_sims, training_genes) ==
    [k \in 1..Len(training_genes) |-> [gene |-> training_genes[k], score |-> cos_sims[k]]]

\* lines 120-129
ScoreGenes ==
    /\ pc = "score"
    /\ LET G_predicted == G_predicted_of(adata_map.X, S.m)
           cos_sims == CosSims(G.m, G_predicted)
           training_genes == adata_cells.var
       IN IF Len(cos_sims) = Len(training_genes)
          THEN /\ adata_map' = [adata_map EXCEPT
                                  !.scored = TRUE,
                                  !.uns = sort_values_desc(DataFrame(cos_sims, training_genes))]
               /\ pc' = "return"
               /\ steps' = Append(steps, "score")
               /\ err' = err
          ELSE /\ adata_map' = adata_map
               /\ pc' = "raised"
               /\ steps' = steps
               /\ err' = Raise("ValueError", 127)
    /\ UNCHANGED <<adata_cells, adata_space, mode, adata_map_arg, num_epochs, S, G, d,
                   hyperparameters, mapper, mapping_matrix, returned, device, ppvars>>

\* line 131
Return ==
    /\ pc = "return"
    /\ returned' = TRUE
    /\ pc' = "returned"
    /\ UNCHANGED <<adata_cells, adata_space, mode, adata_map_arg, num_epochs, S, G, d,
                   hyperparameters, mapper, mapping_matrix, adata_map, err, steps, device,
                   ppvars>>

MapKinds == {"ndarray", "csr", "csc", "list"}
Modes == {"simple", "clusters"}

Min(a, b) == IF a < b THEN a ELSE b

\* expression of one gene over n observations: absent, in the first
\* observation only, or growing with the observation (from 0, from 1)
ZeroCol(n) == [r \in 1..n |-> 0]
FirstCol(n) == [r \in 1..n |-> IF r = 1 THEN MaxExpr ELSE 0]
RampCol(n) == [r \in 1..n |-> Min(r - 1, MaxExpr)]
StepCol(n) == [r \in 1..n |-> Min(r, MaxExpr)]

CellCols == {ZeroCol(NCells), StepCol(NCells)}
SpotCols == {ZeroCol(NSpots), FirstCol(NSpots), RampCol(NSpots)}

\* the matrix of r observations whose gene columns are cols[1], cols[2], ...
FromCols(r, cols) == [i \in 1..r |-> [g \in 1..Len(cols) |-> cols[g][i]]]

MapInputs(nS, nG, kc, ks, cs, cg) ==
    /\ adata_cells = AnnData([g \in 1..nS |-> g], MkX(kc, NCells, nS, FromCols(NCells, cs)))
    /\ adata_space = AnnData([g \in 1..nG |-> g], MkX(ks, NSpots, nG, FromCols(NSpots, cg)))

\* calls that differ in representation, mode, resumed mapping and shapes
InitControl ==
    /\ \E nS, nG \in 1..MaxGenesMap, kc, ks \in MapKinds :
          MapInputs(nS, nG, kc, ks, [g \in 1..nS |-> StepCol(NCells)],
                    [g \in 1..nG |-> RampCol(NSpots)])
    /\ mode \in Modes
    /\ adata_map_arg \in {"none", "fits", "misfit"}
    /\ num_epochs \in 0..MaxEpochs
    /\ device \in Devices

\* well-formed calls that differ in the expression values
InitValues ==
    /\ \E n \in 1..MaxGenesMap,
          kk \in {<<"ndarray", "ndarray">>, <<"csr", "csc">>} :
          \E cs \in [1..n -> CellCols], cg \in [1..n -> SpotCols] :
             MapInputs(n, n, kk[1], kk[2], cs, cg)
    /\ mode = "simple"
    /\ adata_map_arg = "none"
    /\ num_epochs \in 1..MaxEpochs
    /\ device = "cuda:0"

PPIdle ==
    /\ pp_pc = "idle"
    /\ pp_in1 = AnnData(<<>>, Dense(0, 0, <<>>))
    /\ pp_in2 = AnnData(<<>>, Dense(0, 0, <<>>))
    /\ pp_genes_arg = [given |-> FALSE, list |-> <<>>]
    /\ genes = <<>>
    /\ adata_1 = pp_in1
    /\ adata_2 = pp_in2
    /\ pp_err = NoError

Init ==
    /\ PPIdle
    /\ pc = "ingest_cells"
    /\ (InitControl \/ InitValues)
    /\ S = [set |-> FALSE, m |-> <<>>]
    /\ G = [set |-> FALSE, m |-> <<>>]
    /\ d = [set |-> FALSE, v |-> <<>>]
    /\ hyperparameters = [set |-> FALSE, lambda_d |-> 0, lambda_g1 |-> 0,
                          lambda_g2 |-> 0, lambda_r |-> 0]
    /\ mapper = [built |-> FALSE, W |-> <<>>, epoch |-> 0]
    /\ mapping_matrix = [set |-> FALSE, M |-> <<>>]
    /\ adata_map = [built |-> FALSE, X |-> <<>>, obs |-> <<>>, var |-> <<>>,
                    scored |-> FALSE, uns |-> <<>>]
    /\ err = NoError
    /\ steps = <<>>
    /\ returned = FALSE

Next ==
    \/ IngestCells \/ IngestSpace \/ AllocDensity \/ ResolveMode \/ ConstructMapper
    \/ TrainEpoch \/ TrainReturn \/ Package \/ ScoreGenes \/ Return

Spec == Init /\ [][Next]_vars


\* ================================================================ claims
\* ---- pp_adatas

\* the genes a call of pp_adatas is to keep, from its arguments
SharedGenes == Range(pp_in1.var) \cap Range(pp_in2.var)
ExpectedKept ==
    IF pp_genes_arg.given THEN Range(pp_genes_arg.list) \cap SharedGenes ELSE SharedGenes

\* a gene axis restricted to a set of genes, order unchanged
RECURSIVE Restrict(_, _)
Restrict(v, K) ==
    IF v = <<>> THEN <<>>
    ELSE (IF Head(v) \in K THEN <<Head(v)>> ELSE <<>>) \o Restrict(Tail(v), K)

\* C1: when pp_adatas returns, both returned datasets have the same gene
\* axis (same length, same order), and it is dataset-1's gene order
\* restricted to the genes that were kept.
C1_AlignedGeneAxes ==
    pp_pc = "returned" =>
        /\ Len(adata_1.var) = Len(adata_2.var)
        /\ adata_2.var = adata_1.var
        /\ adata_1.var = Restrict(pp_in1.var, Range(adata_2.var))

\* a return in which dataset-2 listed the kept genes in another order
C1_Witness ==
    /\ pp_pc = "returned"
    /\ Len(adata_2.var) >= 2
    /\ Restrict(pp_in2.var, Range(adata_2.var)) # adata_2.var

\* C2: the genes kept in both returned datasets are exactly candidate genes
\* /\ dataset-1 genes /\ dataset-2 genes, and exactly dataset-1 genes /\
\* dataset-2 genes when genes is None.
C2_KeptIsIntersection ==
    pp_pc = "returned" =>
        /\ Range(adata_1.var) = ExpectedKept
        /\ Range(adata_2.var) = ExpectedKept
        /\ (~pp_genes_arg.given => Range(adata_1.var) = SharedGenes)

\* a return in which the candidate list removed a shared gene and kept one
C2_Witness ==
    /\ pp_pc = "returned"
    /\ pp_genes_arg.given
    /\ ExpectedKept # {}
    /\ ExpectedKept # SharedGenes
    /\ Range(adata_1.var) = ExpectedKept

\* the entries a returned dataset must have: those of the caller's dataset
\* for the kept genes, in the returned order
ExpectedEntries(in, out) ==
    [i \in 1..in.X.shape[1] |->
       [j \in 1..Len(out.var) |-> Entries(in.X)[i][PosOf(in.var, out.var[j])]]]

\* C9 (as claimed): for dense or sparse inputs pp_adatas returns normally,
\* with X of both returned datasets a dense array holding the same values.
C9_DenseOrSparseReturnsDense ==
    /\ pp_pc # "raised"
    /\ pp_pc = "returned" =>
          /\ isinstance_ndarray(adata_1.X) /\ adata_1.X.data = ExpectedEntries(pp_in1, adata_1)
          /\ isinstance_ndarray(adata_2.X) /\ adata_2.X.data = ExpectedEntries(pp_in2, adata_2)

\* ---- map_cells_to_space

UnsupportedMode == Raise("NotImplementedError", 101)
Recognised(X) == X.kind \in {"ndarray", "csr", "csc"}

\* C3 (as claimed): a call whose mode is not 'simple' fails with the
\* unsupported-mode error, and when it is raised nothing has been ingested or
\* allocated and no Mapper exists.
C3_ModeFailsBeforeAllocation ==
    (mode # "simple" /\ pc = "raised") =>
        /\ err = UnsupportedMode
        /\ ~S.set /\ ~G.set /\ ~d.set
        /\ ~mapper.built

\* C4: a call in which the cell matrix or the spatial matrix is in a
\* representation other than dense, CSR or CSC fails with the
\* unsupported-matrix-type error where that matrix is ingested; that matrix is
\* never ingested, no Mapper is constructed or trained, nothing is returned.
C4_UnsupportedMatrixIsHardStop ==
    (~Recognised(adata_cells.X) \/ ~Recognised(adata_space.X)) =>
        /\ pc \in {"ingest_cells", "ingest_space", "raised"}
        /\ ~mapper.built /\ mapper.epoch = 0 /\ ~adata_map.built /\ ~returned
        /\ (~Recognised(adata_cells.X) => ~S.set /\ ~G.set)
        /\ (~Recognised(adata_space.X) => ~G.set)
        /\ Len(steps) <= 1
        /\ pc = "raised" =>
              err = Raise("NotImplementedError",
                          IF Recognised(adata_cells.X) THEN 88 ELSE 79)

C4_Witness ==
    /\ Recognised(adata_cells.X)
    /\ ~Recognised(adata_space.X)
    /\ pc = "raised"
    /\ err = Raise("NotImplementedError", 88)
    /\ S.set

\* C5 (as claimed): every score of the table is a defined number, also for a
\* gene whose column of G or of the predicted expression is all zero.
C5_ScoresAreDefined ==
    adata_map.scored => \A k \in 1..Len(adata_map.uns) : ~adata_map.uns[k].score.nan

\* C6: after one or more completed epochs, every row of the matrix stored in
\* the result container sums to 1 and has no negative entry.
C6_RowsAreDistributions ==
    (adata_map.built /\ mapper.epoch >= 1) =>
        /\ nrows(adata_map.X) = n_obs(adata_cells)
        /\ \A i \in 1..nrows(adata_map.X) :
              /\ Len(adata_map.X[i]) = n_obs(adata_space)
              /\ REq(RSum(adata_map.X[i]), RInt(1))
              /\ \A j \in 1..Len(adata_map.X[i]) :
                    adata_map.X[i][j][2] > 0 /\ adata_map.X[i][j][1] >= 0

\* a returned container, trained for an epoch, with a cell spread over spots
C6_Witness ==
    /\ returned
    /\ mapper.epoch >= 1
    /\ \E i \in 1..nrows(adata_map.X) :
          Cardinality({j \in 1..Len(adata_map.X[i]) : adata_map.X[i][j][1] > 0}) >= 2

GeneColumnsDiffer == S.set /\ G.set /\ ncols(S.m) # ncols(G.m)

NoPartialState ==
    /\ ~mapper.built /\ mapper.epoch = 0
    /\ ~mapping_matrix.set
    /\ ~adata_map.built /\ ~returned

\* C7 (as claimed): a call in which S and G differ in their number of gene
\* columns fails with the dimension-mismatch error at construction, before
\* any epoch, leaving no partial state and returning no result.
C7_MismatchFailsAtConstruction ==
    (GeneColumnsDiffer /\ pc \in {"raised", "returned"}) =>
        /\ err.type = "DimensionMismatchError"
        /\ NoPartialState

\* C7 (amended): a call in which S and G differ in their number of gene
\* columns fails before any training epoch, leaves no partial state (no
\* Mapper, no mapping matrix, no result container, the datasets passed in
\* unmodified) and returns nothing.  With a device string that torch.device
\* parses and mode 'simple' it fails at the Mapper's construction, with the
\* dimension-mismatch error or, when a mapping to resume from has the wrong
\* shape as well, with that error or the shape-mismatch error; with a device
\* string that does not parse it fails before, with RuntimeError; otherwise
\* with the unsupported-mode error.
C7_MismatchFailsBeforeTraining ==
    /\ [](GeneColumnsDiffer =>
            /\ pc \in {"ingest_space", "alloc_d", "resolve_mode", "construct", "raised"}
            /\ NoPartialState
            /\ pc = "raised" =>
                  IF ~torch_device_ok(device) THEN err = Raise("RuntimeError", 91)
                  ELSE IF mode # "simple" THEN err = UnsupportedMode
                  ELSE /\ err.line = 103
                       /\ \/ err.type = "DimensionMismatchError"
                          \/ err.type = "ShapeMismatchError" /\ adata_map_arg = "misfit")
    /\ [][adata_cells' = adata_cells /\ adata_space' = adata_space]_vars

C7_Witness ==
    /\ GeneColumnsDiffer
    /\ pc = "raised"
    /\ err = Raise("DimensionMismatchError", 103)
    /\ d.set /\ ~mapper.built

\* the score of the gene at position g of the training genes, from its own
\* columns of G and of the predicted expression
OwnScore(g) ==
    CosSim(Column(G.m, g),
           [sp \in 1..ncols(adata_map.X) |->
              RSum([i \in 1..nrows(adata_map.X) |-> RMul(adata_map.X[i][sp], RInt(S.m[i][g]))])])

\* C8: train_genes_scores has exactly one row per training gene, each gene
\* with the score of its own columns, and the rows are in descending order of
\* score (no row is followed by a row of greater score; rows whose score is
\* not a number come last).
C8_ScoresRankedDescending ==
    adata_map.scored =>
        LET t == adata_map.uns
        IN /\ Len(t) = Len(adata_cells.var)
           /\ \A g \in 1..Len(adata_cells.var) :
                 Cardinality({k \in 1..Len(t) : t[k].gene = adata_cells.var[g]}) = 1
           /\ \A k \in 1..Len(t) :
                 t[k].score = OwnScore(PosOf(adata_cells.var, t[k].gene))
           /\ \A i, j \in 1..Len(t) :
                 i < j => /\ (t[i].score.nan => t[j].score.nan)
                          /\ (~t[i].score.nan /\ ~t[j].score.nan
                                => ~ScoreLess(t[i].score, t[j].score))

\* a returned table in which the second training gene outranks the first
C8_Witness ==
    /\ returned
    /\ adata_map.scored
    /\ Len(adata_map.uns) >= 2
    /\ adata_map.uns[1].gene = adata_cells.var[2]
    /\ ~adata_map.uns[1].score.nan /\ ~adata_map.uns[2].score.nan
    /\ ScoreLess(adata_map.uns[2].score, adata_map.uns[1].score)

StepOrder ==
    <<"ingest_cells", "ingest_space", "resolve_mode", "construct", "train", "package", "score">>

IsClaimStep(x) == x # "alloc_d"

IsPrefix(a, b) == Len(a) <= Len(b) /\ a = SubSeq(b, 1, Len(a))

\* C10: the steps run in the order ingest cells, ingest space, resolve mode,
\* construct, train, package, score, each at most once; an error ends the
\* call with that error (nothing runs after it, it is never replaced); a
\* result is returned only after every step has completed without error.
C10_FixedOrderNoRecovery ==
    /\ [](/\ IsPrefix(SelectSeq(steps, IsClaimStep), StepOrder)
          /\ (err # NoError <=> pc = "raised")
          /\ (returned => err = NoError /\ SelectSeq(steps, IsClaimStep) = StepOrder
                          /\ adata_map.built /\ adata_map.scored))
    /\ [][err # NoError => (err' = err /\ steps' = steps /\ ~returned')]_vars

\* a call that failed in the middle, at the Mapper's construction
C10_Witness ==
    /\ pc = "raised"
    /\ err.line = 103
    /\ SelectSeq(steps, IsClaimStep) = SubSeq(StepOrder, 1, 3)

====
